---- MODULE Spec2Model ----
(***************************************************************************)
(* WebSocketResource (src/src/web-socket-resource.ts): the establishment   *)
(* race of open(), the constructor and its close bridging, the teardown    *)
(* action, and send().                                                     *)
(*                                                                         *)
(* The program runs on a single-threaded event loop.  A task (a transport  *)
(* event, a timer, a buffer flush) is one action; the reactions of a       *)
(* settled promise are microtasks, which the loop runs before the next     *)
(* task: every task action is therefore guarded by ~MicrotaskPending.      *)
(*                                                                         *)
(* Resource, CloseStack and ResourceFactory (@xstd/resource), sleep        *)
(* (@xstd/abortable) and the WebSocket transport are collaborators whose   *)
(* code is not part of the sources; they are modelled from the contracts   *)
(* the specification gives for them.                                       *)
(***************************************************************************)
EXTENDS Integers, Sequences, FiniteSets, TLC

\* ---------------------------------------------------------------- bounds
MaxSends == 2
MaxCloseCalls == 2
MaxListens == 1
MaxMessages == 2
\* The close(), send() and listen() calls and the messages of one run, taken
\* together, where a specification bounds them so.
MaxOps == 3
\* The close() and send() calls of one run, taken together, likewise.
MaxCalls == 2

\* ---------------------------------------------------------------- values
AbortReasons == {"r1", "r2"}
CloseEventCodes == {1000, 1006}
\* Two distinguishable payloads, one of them empty (no byte to buffer).
Payloads == {"", "a"}
\* The payloads of inbound messages.
Messages == {"x", "y"}

\* A settled value or a close reason: k is its kind.
Val(k, hasCode, code, r) == [k |-> k, hasCode |-> hasCode, code |-> code, r |-> r]
NoValue == Val("none", FALSE, 0, "")
TheResource == Val("resource", FALSE, 0, "")
AbortReason(r) == Val("reason", FALSE, 0, r)
SyntaxError == Val("syntax", FALSE, 0, "")
ClosedError == Val("closed", FALSE, 0, "")
InvalidAccessError == Val("invalidAccess", FALSE, 0, "")
OtherReason == Val("other", FALSE, 0, "")

\* new WebSocketError(): no code, no text.
GenericWebSocketError == Val("wse", FALSE, 0, "")
\* WebSocketError.fromCloseEvent(event): carries the event's code.
FromCloseEvent(code) == Val("wse", TRUE, code, "")

\* The reasons a caller passes to close(reason?).
UserCloseReasons ==
  {NoValue, OtherReason, GenericWebSocketError} \cup {FromCloseEvent(c) : c \in CloseEventCodes}

VARIABLES
  owner,          \* who created the transport: "none", "factory" (open()), "user"
  signal,         \* the signal given to open(): [st, reason, atCall (st when open() ran)]
  ws,             \* the transport: [st, errFired, closeFired, code (of its close event)]
  raceListeners,  \* the race's listeners still registered: "abort", "open", "close", "error"
  openP,          \* the promise open() returned: [st, value]
  settleCalls,    \* calls of the race's resolve()/reject()
  handlerRuns,    \* invocations of onAbort/onOpen/onClose/onError
  firstEvent,     \* the first race event that occurred: [e, code, r]
  observed,       \* what the caller saw when the promise's reaction ran
  res,            \* the resource
  closeCalls,     \* the close() invocations: a sequence of [src, outcome]
  wsCloseCalls,   \* the arguments of the resource's calls of transport.close
  sends,          \* the send() invocations: [call, closedAtCall, afterWsClose], the last
                  \* two recording the resource and the transport when send() was called
  wire,           \* the payloads handed to transport.send, in order
  buffered,       \* transport.bufferedAmount
  listens,        \* the listen() invocations: [sub, sigAtCall, closedAtCall], the last
                  \* two recording the caller's signal and the resource at the call
  inbox           \* the payloads of the transport's message events, in arrival order

vars == <<owner, signal, ws, raceListeners, openP, settleCalls, handlerRuns, firstEvent,
          observed, res, closeCalls, wsCloseCalls, sends, wire, buffered, listens, inbox>>

raceVars == <<raceListeners, openP, settleCalls, handlerRuns, firstEvent>>
sendVars == <<sends, wire, buffered>>
listenVars == <<listens, inbox>>

NoResource ==
  [ctor |-> "none", from |-> "none", closeAborted |-> FALSE, bridge |-> {}, scoped |-> FALSE,
   teardowns |-> 0, closing |-> FALSE, reason |-> NoValue, teardownRuns |-> 0,
   outcome |-> "none", error |-> NoValue, bridgeRuns |-> 0]

Init ==
  /\ owner = "none"
  /\ signal = [st |-> "none", reason |-> "", atCall |-> "none"]
  /\ ws = [st |-> "none", errFired |-> FALSE, closeFired |-> FALSE, code |-> 0]
  /\ raceListeners = {}
  /\ openP = [st |-> "none", value |-> NoValue]
  /\ settleCalls = 0
  /\ handlerRuns = 0
  /\ firstEvent = [e |-> "none", code |-> 0, r |-> ""]
  /\ observed = [seen |-> FALSE, aborted |-> FALSE, bridge |-> {}]
  /\ res = NoResource
  /\ closeCalls = <<>>
  /\ wsCloseCalls = <<>>
  /\ sends = <<>>
  /\ wire = <<>>
  /\ buffered = 0
  /\ listens = <<>>
  /\ inbox = <<>>

\* ------------------------------------------------------- the open() race
\* The race's state as one value: L the registered listeners, p the promise,
\* calls the resolve()/reject() calls, runs the handler invocations.
Race == [L |-> raceListeners, p |-> openP, calls |-> settleCalls, runs |-> handlerRuns]

SetRace(R) ==
  /\ raceListeners' = R.L
  /\ openP' = R.p
  /\ settleCalls' = R.calls
  /\ handlerRuns' = R.runs

\* A promise's resolve/reject function: only the first call settles it.
SettlePromise(p, st, v) == IF p.st = "pending" THEN [st |-> st, value |-> v] ELSE p

\* Mutant of End: the listener on the caller's signal is forgotten.
EndLeaky(R) == [R EXCEPT !.L = @ \cap {"abort"}]

\* end(): removes the four listeners.
End(R) == [R EXCEPT !.L = {}]

\* resolve(value): end(), then _resolve(value).
Resolve(R, v) ==
  LET R1 == End(R) IN [R1 EXCEPT !.p = SettlePromise(R1.p, "resolved", v), !.calls = @ + 1]

\* reject(error): end(), then _reject(error).
Reject(R, e) ==
  LET R1 == End(R) IN [R1 EXCEPT !.p = SettlePromise(R1.p, "rejected", e), !.calls = @ + 1]

Ran(R) == [R EXCEPT !.runs = @ + 1]

OnAbort(R, r) == Reject(End(Ran(R)), AbortReason(r))

\* new WebSocketResource(webSocket) is evaluated before resolve() is called: if it
\* throws, the listeners are gone and the promise is left pending.
OnOpen(R, newRes) ==
  IF newRes.ctor = "ok" THEN Resolve(End(Ran(R)), TheResource) ELSE End(Ran(R))

\* Mutant of OnClose: the close event's detail is dropped.
OnCloseGeneric(R, code) == Reject(End(Ran(R)), GenericWebSocketError)

OnClose(R, code) == Reject(End(Ran(R)), FromCloseEvent(code))

OnError(R) == Reject(End(Ran(R)), GenericWebSocketError)

\* Mutant of OpenExecutor: the transport is created before the signal is looked at.
OpenExecutorLate(sigSt, r, urlOk) ==
  IF ~urlOk
    THEN [created |-> FALSE, L |-> {}, p |-> [st |-> "rejected", value |-> SyntaxError]]
    ELSE IF sigSt = "aborted"
      THEN [created |-> TRUE, L |-> {}, p |-> [st |-> "rejected", value |-> AbortReason(r)]]
      ELSE [created |-> TRUE,
            L |-> (IF sigSt = "live" THEN {"abort"} ELSE {}) \cup {"open", "close", "error"},
            p |-> [st |-> "pending", value |-> NoValue]]

\* The executor of open()'s promise.  created: whether new WebSocket(...) ran.
OpenExecutor(sigSt, r, urlOk) ==
  IF sigSt = "aborted"
    THEN [created |-> FALSE, L |-> {}, p |-> [st |-> "rejected", value |-> AbortReason(r)]]
    ELSE IF ~urlOk
      THEN [created |-> FALSE, L |-> {}, p |-> [st |-> "rejected", value |-> SyntaxError]]
      ELSE [created |-> TRUE,
            L |-> (IF sigSt = "live" THEN {"abort"} ELSE {}) \cup {"open", "close", "error"},
            p |-> [st |-> "pending", value |-> NoValue]]

\* ------------------------------------------------------------ the resource
\* The teardown action registered by the constructor, run on transport state w with
\* close reason `reason`: the call of transport.close it makes, if any.
ValidCloseCode(c) == c = 1000 \/ (c >= 3000 /\ c <= 4999)

\* Mutants of Teardown: an open transport is left alone; the reason's code and
\* text are never passed; the transport's state is not looked at.
TeardownAnyState(w, reason) ==
  IF reason.k = "wse"
    THEN [called |-> TRUE, args |-> reason,
          throws |-> reason.hasCode /\ ~ValidCloseCode(reason.code)]
    ELSE [called |-> TRUE, args |-> NoValue, throws |-> FALSE]

TeardownNoArgs(w, reason) ==
  IF w \in {"CONNECTING", "OPEN"}
    THEN [called |-> TRUE, args |-> NoValue, throws |-> FALSE]
    ELSE [called |-> FALSE, args |-> NoValue, throws |-> FALSE]

TeardownConnectingOnly(w, reason) ==
  IF w = "CONNECTING"
    THEN [called |-> TRUE, args |-> NoValue, throws |-> FALSE]
    ELSE [called |-> FALSE, args |-> NoValue, throws |-> FALSE]

Teardown(w, reason) ==
  IF w \in {"CONNECTING", "OPEN"}
    THEN IF reason.k = "wse"
      THEN [called |-> TRUE, args |-> reason,
            throws |-> reason.hasCode /\ ~ValidCloseCode(reason.code)]
      ELSE [called |-> TRUE, args |-> NoValue, throws |-> FALSE]
    ELSE [called |-> FALSE, args |-> NoValue, throws |-> FALSE]

\* Mutants of Constructor: the 'error' listener is missing; the 'close' listener is
\* missing; the listeners and the teardown are registered before the state is
\* checked; the listeners are not scoped to the close signal; the teardown is
\* registered twice.
ConstructorNoErrorBridge(w) ==
  IF w # "OPEN"
    THEN [NoResource EXCEPT !.ctor = "threw", !.from = w]
    ELSE [NoResource EXCEPT !.ctor = "ok", !.from = w, !.bridge = {"close"},
                            !.scoped = TRUE, !.teardowns = 1]

ConstructorNoCloseBridge(w) ==
  IF w # "OPEN"
    THEN [NoResource EXCEPT !.ctor = "threw", !.from = w]
    ELSE [NoResource EXCEPT !.ctor = "ok", !.from = w, !.bridge = {"error"},
                            !.scoped = TRUE, !.teardowns = 1]

ConstructorRegistersFirst(w) ==
  [NoResource EXCEPT !.ctor = IF w # "OPEN" THEN "threw" ELSE "ok", !.from = w,
                     !.bridge = {"close", "error"}, !.scoped = TRUE, !.teardowns = 1]

ConstructorUnscoped(w) ==
  IF w # "OPEN"
    THEN [NoResource EXCEPT !.ctor = "threw", !.from = w]
    ELSE [NoResource EXCEPT !.ctor = "ok", !.from = w, !.bridge = {"close", "error"},
                            !.scoped = FALSE, !.teardowns = 1]

ConstructorTwoTeardowns(w) ==
  IF w # "OPEN"
    THEN [NoResource EXCEPT !.ctor = "threw", !.from = w]
    ELSE [NoResource EXCEPT !.ctor = "ok", !.from = w, !.bridge = {"close", "error"},
                            !.scoped = TRUE, !.teardowns = 2]

\* new WebSocketResource(webSocket), the transport being in state w.
Constructor(w) ==
  IF w # "OPEN"
    THEN [NoResource EXCEPT !.ctor = "threw", !.from = w]
    ELSE [NoResource EXCEPT !.ctor = "ok", !.from = w, !.bridge = {"close", "error"},
                            !.scoped = TRUE, !.teardowns = 1]

\* CloseStack.close(reason): idempotent; the first call fixes the reason and starts
\* the teardown.
ManagerClose(r, reason) ==
  IF r.closing THEN r ELSE [r EXCEPT !.closing = TRUE, !.reason = reason]

\* The callback the constructor hands to super(): this.#manager.close(reason).
CloseCallback(r, reason) == ManagerClose(r, reason)

\* Resource.close(reason): aborts the close signal (which removes the listeners
\* registered with it), then runs the close callback.
ResourceClose(r, reason) ==
  CloseCallback([r EXCEPT !.closeAborted = TRUE,
                          !.bridge = IF r.scoped THEN {} ELSE r.bridge], reason)

\* Mutant of BridgeClose: the listener goes to the close stack directly, past
\* Resource.close.
BridgeCloseDirect(r, code) ==
  ManagerClose([r EXCEPT !.bridgeRuns = @ + 1], FromCloseEvent(code))

\* The constructor's 'close' and 'error' listeners.
BridgeClose(r, code) == ResourceClose([r EXCEPT !.bridgeRuns = @ + 1], FromCloseEvent(code))

\* Mutant of BridgeError: the listener does not close the resource.
BridgeErrorIgnore(r) == [r EXCEPT !.bridgeRuns = @ + 1]

BridgeError(r) == ResourceClose([r EXCEPT !.bridgeRuns = @ + 1], GenericWebSocketError)

\* A close() invocation as its caller sees it.
CloseCall(src, r) == [src |-> src, outcome |-> IF r.outcome = "none" THEN "pending" ELSE r.outcome]

\* The teardown callbacks of the stack, run in turn; a throw ends the run.
RECURSIVE RunTeardowns(_, _)
RunTeardowns(n, t) ==
  IF n = 0 \/ t.threw THEN t
  ELSE LET c == Teardown(t.w, t.reason) IN
       RunTeardowns(n - 1,
         [t EXCEPT !.runs = @ + 1,
                   !.w = IF c.called /\ ~c.throws THEN "CLOSING" ELSE @,
                   !.calls = IF c.called THEN Append(@, c.args) ELSE @,
                   !.threw = c.throws])

\* ----------------------------------------------------------------- send
Size(payload) == IF payload = "" THEN 0 ELSE 1

UserHasResource == res.ctor = "ok" /\ (owner = "user" \/ observed.seen)

\* The caller's signal of a send: "idle", "aborted" (before the close signal was) or
\* "abortedLate" (after the close signal was).
CallerAborted(s) == s.sig # "idle"

\* The signal of a send's task: the merge of the close signal and the caller's.
TaskAborted(s) == res.closeAborted \/ CallerAborted(s)

\* The reason the merged signal aborts with: that of the signal that fired first.
CancelReason(s) == Val("aborted", FALSE, 0, IF s.sig = "aborted" THEN "caller" ELSE "close")

MicrotaskPending ==
  \/ openP.st \in {"resolved", "rejected"} /\ ~observed.seen
  \/ \E i \in 1..Len(sends) : sends[i].call.st = "sleeping" /\ TaskAborted(sends[i].call)

\* -------------------------------------------------------------- actions
FirstEvent(e, code, r) ==
  IF firstEvent.e = "none" /\ owner = "factory" /\ ws.st # "none"
    THEN [e |-> e, code |-> code, r |-> r]
    ELSE firstEvent

\* WebSocketResource.open(url, {signal}).
Open ==
  /\ owner = "none"
  /\ \E sigSt \in {"none", "live", "aborted"}, r \in AbortReasons, urlOk \in BOOLEAN :
       LET x == OpenExecutor(sigSt, r, urlOk) IN
       /\ owner' = "factory"
       /\ signal' = [st |-> sigSt, reason |-> IF sigSt = "aborted" THEN r ELSE "",
                     atCall |-> sigSt]
       /\ ws' = IF x.created THEN [ws EXCEPT !.st = "CONNECTING"] ELSE ws
       /\ raceListeners' = x.L
       /\ openP' = x.p
  /\ UNCHANGED <<listenVars, settleCalls, handlerRuns, firstEvent, observed, res, closeCalls,
                 wsCloseCalls, sendVars>>

\* The caller's reaction to the settled promise of open().
ObserveOpen ==
  /\ openP.st \in {"resolved", "rejected"}
  /\ ~observed.seen
  /\ observed' = [seen |-> TRUE, aborted |-> res.closeAborted, bridge |-> res.bridge]
  /\ UNCHANGED <<listenVars, owner, signal, ws, raceVars, res, closeCalls, wsCloseCalls, sendVars>>

\* The caller aborts the signal it gave to open().  Once the caller has seen the
\* outcome, an abort with no listener on the signal changes nothing and is left out.
ExternalAbort ==
  /\ signal.st = "live"
  /\ "abort" \in raceListeners \/ ~observed.seen
  /\ \E r \in AbortReasons :
       /\ signal' = [signal EXCEPT !.st = "aborted", !.reason = r]
       /\ firstEvent' = FirstEvent("abort", 0, r)
       /\ SetRace(IF "abort" \in raceListeners THEN OnAbort(Race, r) ELSE Race)
  /\ UNCHANGED <<listenVars, owner, ws, observed, res, closeCalls, wsCloseCalls, sendVars>>

\* The caller creates a transport itself (new WebSocket(url)).
RawNew ==
  /\ owner = "none"
  /\ owner' = "user"
  /\ ws' = [ws EXCEPT !.st = "CONNECTING"]
  /\ UNCHANGED <<listenVars, signal, raceVars, observed, res, closeCalls, wsCloseCalls, sendVars>>

\* The caller closes its own transport before wrapping it.
RawClose ==
  /\ owner = "user"
  /\ res.ctor # "ok"
  /\ ws.st \in {"CONNECTING", "OPEN"}
  /\ ws' = [ws EXCEPT !.st = "CLOSING"]
  /\ UNCHANGED <<listenVars, owner, signal, raceVars, observed, res, closeCalls, wsCloseCalls, sendVars>>

\* The caller constructs a resource from its own transport.
ConstructDirect ==
  /\ owner = "user"
  /\ res.ctor # "ok"
  /\ res' = Constructor(ws.st)
  /\ UNCHANGED <<listenVars, owner, signal, ws, raceVars, observed, closeCalls, wsCloseCalls, sendVars>>

\* The transport's open event.
WsOpenEvent ==
  /\ ~MicrotaskPending
  /\ ws.st = "CONNECTING"
  /\ ws' = [ws EXCEPT !.st = "OPEN"]
  /\ firstEvent' = FirstEvent("open", 0, "")
  /\ IF "open" \in raceListeners
       THEN LET newRes == Constructor("OPEN") IN
            /\ SetRace(OnOpen(Race, newRes))
            /\ res' = newRes
       ELSE /\ SetRace(Race)
            /\ res' = res
  /\ UNCHANGED <<listenVars, owner, signal, observed, closeCalls, wsCloseCalls, sendVars>>

\* The peer starts the closing handshake.
WsPeerClosing ==
  /\ ~MicrotaskPending
  /\ ws.st = "OPEN"
  /\ ws' = [ws EXCEPT !.st = "CLOSING"]
  /\ UNCHANGED <<listenVars, owner, signal, raceVars, observed, res, closeCalls, wsCloseCalls, sendVars>>

\* The transport's close event, with the event's code.
WsCloseEvent ==
  /\ ~MicrotaskPending
  /\ ws.st # "none"
  /\ ~ws.closeFired
  /\ \E code \in CloseEventCodes :
       LET r1 == IF "close" \in res.bridge THEN BridgeClose(res, code) ELSE res IN
       /\ ws' = [ws EXCEPT !.st = "CLOSED", !.closeFired = TRUE, !.code = code]
       /\ firstEvent' = FirstEvent("close", code, "")
       /\ SetRace(IF "close" \in raceListeners THEN OnClose(Race, code) ELSE Race)
       /\ res' = r1
       /\ closeCalls' = IF "close" \in res.bridge
                          THEN Append(closeCalls, CloseCall("wsClose", r1))
                          ELSE closeCalls
  /\ UNCHANGED <<listenVars, owner, signal, observed, wsCloseCalls, sendVars>>

\* The transport's error event: the connection has failed.
WsErrorEvent ==
  /\ ~MicrotaskPending
  /\ ws.st \in {"CONNECTING", "OPEN", "CLOSING"}
  /\ ~ws.errFired
  /\ LET r1 == IF "error" \in res.bridge THEN BridgeError(res) ELSE res IN
     /\ ws' = [ws EXCEPT !.st = "CLOSED", !.errFired = TRUE]
     /\ firstEvent' = FirstEvent("error", 0, "")
     /\ SetRace(IF "error" \in raceListeners THEN OnError(Race) ELSE Race)
     /\ res' = r1
     /\ closeCalls' = IF "error" \in res.bridge
                        THEN Append(closeCalls, CloseCall("wsError", r1))
                        ELSE closeCalls
  /\ UNCHANGED <<listenVars, owner, signal, observed, wsCloseCalls, sendVars>>

UserCloseCount == Cardinality({i \in 1..Len(closeCalls) : closeCalls[i].src = "user"})

\* The calls of close(), send() and listen() made and the messages received so far.
Ops == UserCloseCount + Len(sends) + Len(listens) + Len(inbox)

\* The calls of close() and send() made so far.
Calls == UserCloseCount + Len(sends)

\* resource.close(reason) called by the user.
UserClose ==
  /\ UserHasResource
  /\ UserCloseCount < MaxCloseCalls
  /\ \E reason \in UserCloseReasons :
       LET r1 == ResourceClose(res, reason) IN
       /\ res' = r1
       /\ closeCalls' = Append(closeCalls, CloseCall("user", r1))
  /\ UNCHANGED <<listenVars, owner, signal, ws, raceVars, observed, wsCloseCalls, sendVars>>

\* The close coordinator runs the teardown stack and settles the close() promises.
RunTeardown ==
  /\ res.closing
  /\ res.outcome = "none"
  /\ LET t == RunTeardowns(res.teardowns,
                 [w |-> ws.st, reason |-> res.reason, runs |-> 0, calls |-> <<>>,
                  threw |-> FALSE])
         o == IF t.threw THEN "rejected" ELSE "resolved" IN
     /\ ws' = [ws EXCEPT !.st = t.w]
     /\ wsCloseCalls' = wsCloseCalls \o t.calls
     /\ res' = [res EXCEPT !.teardownRuns = @ + t.runs, !.outcome = o,
                           !.error = IF t.threw THEN InvalidAccessError ELSE NoValue]
     /\ closeCalls' = [i \in 1..Len(closeCalls) |-> [closeCalls[i] EXCEPT !.outcome = o]]
  /\ UNCHANGED <<listenVars, owner, signal, raceVars, observed, sendVars>>

\* Mutant of SendBody: the task yields before it hands the payload over.
SendBodyDeferred(payload, sigSt, w, b) ==
  [wire |-> w,
   buffered |-> b,
   call |-> [payload |-> payload, sig |-> sigSt, st |-> "sleeping", caught |-> FALSE,
             error |-> NoValue]]

\* The body of the task send() runs: transport.send(payload) first, then the wait
\* for the buffer to drain, which is over at once when nothing is buffered.
SendBody(payload, sigSt, w, b) ==
  LET b1 == b + Size(payload) IN
  [wire |-> Append(w, payload),
   buffered |-> b1,
   call |-> [payload |-> payload, sig |-> sigSt,
             st |-> IF b1 > 0 THEN "sleeping" ELSE "resolved", caught |-> FALSE,
             error |-> NoValue]]

\* CloseStack.runTask(fn, options): fails with a closed indication on a closed
\* resource, without calling fn; calls fn synchronously otherwise.
RunTask(payload, sigSt, closed, w, b) ==
  IF closed
    THEN [wire |-> w, buffered |-> b,
          call |-> [payload |-> payload, sig |-> sigSt,
                    st |-> "rejected", caught |-> FALSE, error |-> ClosedError]]
    ELSE SendBody(payload, sigSt, w, b)

\* Mutant of Send: the task body is run without runTask's guard.
SendUnguarded ==
  /\ UserHasResource
  /\ Len(sends) < MaxSends
  /\ \E payload \in Payloads :
       LET x == SendBody(payload, "idle", wire, buffered) IN
       /\ sends' = Append(sends, [call |-> x.call, closedAtCall |-> res.closeAborted,
                                   afterWsClose |-> ws.closeFired])
       /\ wire' = x.wire
       /\ buffered' = x.buffered
  /\ UNCHANGED <<listenVars, owner, signal, ws, raceVars, observed, res, closeCalls, wsCloseCalls>>

\* resource.send(payload, {signal}).  The caller's signal is "idle" (absent, or not
\* aborted so far: the code reads it only through options?.signal?.aborted and the
\* merged signal, so the two behave alike) until AbortSend aborts it.
Send ==
  /\ UserHasResource
  /\ Len(sends) < MaxSends
  /\ \E payload \in Payloads :
       LET x == RunTask(payload, "idle", res.closeAborted, wire, buffered) IN
       /\ sends' = Append(sends, [call |-> x.call, closedAtCall |-> res.closeAborted,
                                   afterWsClose |-> ws.closeFired])
       /\ wire' = x.wire
       /\ buffered' = x.buffered
  /\ UNCHANGED <<listenVars, owner, signal, ws, raceVars, observed, res, closeCalls, wsCloseCalls>>

\* Mutants of SendCatch: the caught error is always swallowed; it is always
\* rethrown; it is rethrown only when the caller's signal is aborted; a swallowed
\* error leaves the send in its wait.
SendCatchStuck(s, b) ==
  IF CallerAborted(s) \/ b > 0
    THEN [s EXCEPT !.st = "rejected", !.caught = TRUE, !.error = CancelReason(s)]
    ELSE s

SendCatchSwallow(s, b) == [s EXCEPT !.st = "resolved", !.caught = TRUE]

SendCatchAlwaysThrow(s, b) ==
  [s EXCEPT !.st = "rejected", !.caught = TRUE, !.error = CancelReason(s)]

SendCatchCallerOnly(s, b) ==
  IF CallerAborted(s)
    THEN [s EXCEPT !.st = "rejected", !.caught = TRUE, !.error = CancelReason(s)]
    ELSE [s EXCEPT !.st = "resolved", !.caught = TRUE]

\* The catch clause of the wait: sleep() was rejected by the task's signal with its
\* reason.  The error is rethrown when options?.signal?.aborted or bytes are still
\* buffered; otherwise the loop goes on, and ends since nothing is buffered.
SendCatch(s, b) ==
  IF CallerAborted(s) \/ b > 0
    THEN [s EXCEPT !.st = "rejected", !.caught = TRUE, !.error = CancelReason(s)]
    ELSE [s EXCEPT !.st = "resolved", !.caught = TRUE]

\* sleep(0) of a waiting send is over and the buffer is empty: the loop ends.
SendWake ==
  /\ ~MicrotaskPending
  /\ buffered = 0
  /\ \E i \in 1..Len(sends) :
       /\ sends[i].call.st = "sleeping"
       /\ sends' = [sends EXCEPT ![i].call.st = "resolved"]
  /\ UNCHANGED <<listenVars, owner, signal, ws, raceVars, observed, res, closeCalls, wsCloseCalls,
                 wire, buffered>>

\* Mutant of SendAbortWake: a send that is about to reject hands its payload to the
\* transport once more.
SendAbortWakeResend ==
  /\ \E i \in 1..Len(sends) :
       LET s1 == SendCatch(sends[i].call, buffered) IN
       /\ sends[i].call.st = "sleeping"
       /\ TaskAborted(sends[i].call)
       /\ sends' = [sends EXCEPT ![i].call = s1]
       /\ wire' = IF s1.st = "rejected" THEN Append(wire, s1.payload) ELSE wire
  /\ UNCHANGED <<listenVars, owner, signal, ws, raceVars, observed, res, closeCalls, wsCloseCalls,
                 buffered>>

\* sleep(0) of a waiting send is rejected: its task's signal has aborted.
SendAbortWake ==
  /\ \E i \in 1..Len(sends) :
       /\ sends[i].call.st = "sleeping"
       /\ TaskAborted(sends[i].call)
       /\ sends' = [sends EXCEPT ![i].call = SendCatch(sends[i].call, buffered)]
  /\ UNCHANGED <<listenVars, owner, signal, ws, raceVars, observed, res, closeCalls, wsCloseCalls,
                 wire, buffered>>

\* The caller aborts the signal it gave to a send() that is still waiting (the
\* signal of a settled send is no longer read).
AbortSend ==
  /\ \E i \in 1..Len(sends) :
       /\ sends[i].call.sig = "idle"
       /\ sends[i].call.st = "sleeping"
       /\ sends' = [sends EXCEPT ![i].call.sig =
                                   IF res.closeAborted THEN "abortedLate" ELSE "aborted"]
  /\ UNCHANGED <<listenVars, owner, signal, ws, raceVars, observed, res, closeCalls, wsCloseCalls,
                 wire, buffered>>

\* The transport flushes buffered bytes to the network.
Drain ==
  /\ ~MicrotaskPending
  /\ ws.st \in {"OPEN", "CLOSING"}
  /\ buffered > 0
  /\ \E b \in 0..(buffered - 1) : buffered' = b
  /\ UNCHANGED <<listenVars, owner, signal, ws, raceVars, observed, res, closeCalls, wsCloseCalls,
                 sends, wire>>

\* --------------------------------------------------------------- listen
\* Mutants of ListenBody: the closed check comes before the signal check; the
\* subscription is scoped to the caller's signal alone.
ListenBodyClosedFirst(sigSt, closed, n) ==
  IF closed
    THEN [result |-> "threw", sig |-> sigSt, scope |-> {}, from |-> n, got |-> <<>>]
    ELSE IF sigSt = "aborted"
      THEN [result |-> "noop", sig |-> sigSt, scope |-> {}, from |-> n, got |-> <<>>]
      ELSE [result |-> "attached", sig |-> sigSt, scope |-> {"close", "caller"}, from |-> n,
            got |-> <<>>]

ListenBodyUnmerged(sigSt, closed, n) ==
  IF sigSt = "aborted"
    THEN [result |-> "noop", sig |-> sigSt, scope |-> {}, from |-> n, got |-> <<>>]
    ELSE IF closed
      THEN [result |-> "threw", sig |-> sigSt, scope |-> {}, from |-> n, got |-> <<>>]
      ELSE [result |-> "attached", sig |-> sigSt, scope |-> {"caller"}, from |-> n,
            got |-> <<>>]

\* listen(listener, {signal}), n messages having arrived so far: returns at once on
\* an aborted signal, throws on a closed resource (throwIfClosed), and otherwise
\* subscribes to 'message' under the merge of the close signal and the caller's.
ListenBody(sigSt, closed, n) ==
  IF sigSt = "aborted"
    THEN [result |-> "noop", sig |-> sigSt, scope |-> {}, from |-> n, got |-> <<>>]
    ELSE IF closed
      THEN [result |-> "threw", sig |-> sigSt, scope |-> {}, from |-> n, got |-> <<>>]
      ELSE [result |-> "attached", sig |-> sigSt, scope |-> {"close", "caller"}, from |-> n,
            got |-> <<>>]

\* Whether a subscription is still on the transport: an aborted signal of its scope
\* has removed it.
Subscribed(l) ==
  /\ l.result = "attached"
  /\ ~("close" \in l.scope /\ res.closeAborted)
  /\ ~("caller" \in l.scope /\ l.sig = "aborted")

\* Mutant of Deliver: the listener is called twice for one event.
DeliverTwice(l, data) == [l EXCEPT !.got = Append(Append(@, data), data)]

\* The subscription's handler: listener(event.data).
Deliver(l, data) == [l EXCEPT !.got = Append(@, data)]

\* resource.listen(listener, {signal}); "idle" is an absent or not aborted signal.
Listen ==
  /\ UserHasResource
  /\ Len(listens) < MaxListens
  /\ \E sigSt \in {"idle", "aborted"} :
       listens' = Append(listens,
                    [sub |-> ListenBody(sigSt, res.closeAborted, Len(inbox)),
                     sigAtCall |-> sigSt, closedAtCall |-> res.closeAborted])
  /\ UNCHANGED <<inbox, owner, signal, ws, raceVars, observed, res, closeCalls, wsCloseCalls,
                 sendVars>>

\* The caller aborts the signal it gave to a listen() that subscribed.
AbortListen ==
  /\ \E i \in 1..Len(listens) :
       /\ listens[i].sub.result = "attached"
       /\ listens[i].sub.sig = "idle"
       /\ listens' = [listens EXCEPT ![i].sub.sig = "aborted"]
  /\ UNCHANGED <<inbox, owner, signal, ws, raceVars, observed, res, closeCalls, wsCloseCalls,
                 sendVars>>

\* The transport's message event.
Message ==
  /\ ~MicrotaskPending
  /\ ws.st \in {"OPEN", "CLOSING"}
  /\ Len(inbox) < MaxMessages
  /\ \E data \in Messages :
       /\ inbox' = Append(inbox, data)
       /\ listens' = [i \in 1..Len(listens) |->
                        IF Subscribed(listens[i].sub)
                          THEN [listens[i] EXCEPT !.sub = Deliver(@, data)]
                          ELSE listens[i]]
  /\ UNCHANGED <<owner, signal, ws, raceVars, observed, res, closeCalls, wsCloseCalls,
                 sendVars>>

Next ==
  \/ Open
  \/ ObserveOpen
  \/ ExternalAbort
  \/ RawNew
  \/ RawClose
  \/ ConstructDirect
  \/ WsOpenEvent
  \/ WsPeerClosing
  \/ WsCloseEvent
  \/ WsErrorEvent
  \/ UserClose
  \/ RunTeardown
  \/ Send
  \/ SendWake
  \/ SendAbortWake
  \/ AbortSend
  \/ Drain

Spec == Init /\ [][Next]_vars

\* A connecting transport ends up open, closed or in error.
TransportSettles ==
  /\ ws.st = "CONNECTING"
  /\ (WsOpenEvent \/ WsCloseEvent \/ WsErrorEvent)

\* Establishment, close and send, with at most MaxCalls calls of close() and send()
\* in all.  The event loop runs the pending continuations and the expired timers,
\* and the transport goes on: it leaves Connecting, and it flushes what it has
\* buffered.
NextLive ==
  \/ Open
  \/ ObserveOpen
  \/ ExternalAbort
  \/ RawNew
  \/ RawClose
  \/ ConstructDirect
  \/ WsOpenEvent
  \/ WsPeerClosing
  \/ WsCloseEvent
  \/ WsErrorEvent
  \/ Calls < MaxCalls /\ UserClose
  \/ RunTeardown
  \/ Calls < MaxCalls /\ Send
  \/ SendWake
  \/ SendAbortWake
  \/ AbortSend
  \/ Drain

LiveSpec ==
  /\ Init /\ [][NextLive]_vars
  /\ WF_vars(ObserveOpen)
  /\ WF_vars(RunTeardown)
  /\ WF_vars(SendWake)
  /\ WF_vars(SendAbortWake)
  /\ WF_vars(Drain)
  /\ WF_vars(TransportSettles)

\* Establishment, construction and close, without the operations on the resource.
NextOpen ==
  \/ Open
  \/ ObserveOpen
  \/ ExternalAbort
  \/ RawNew
  \/ RawClose
  \/ ConstructDirect
  \/ WsOpenEvent
  \/ WsPeerClosing
  \/ WsCloseEvent
  \/ WsErrorEvent
  \/ UserClose
  \/ RunTeardown

SpecOpen == Init /\ [][NextOpen]_vars

\* The state after new WebSocketResource(webSocket) on an open transport, which is
\* how onOpen constructs the resource as well.
InitRes ==
  /\ owner = "user"
  /\ signal = [st |-> "none", reason |-> "", atCall |-> "none"]
  /\ ws = [st |-> "OPEN", errFired |-> FALSE, closeFired |-> FALSE, code |-> 0]
  /\ raceListeners = {}
  /\ openP = [st |-> "none", value |-> NoValue]
  /\ settleCalls = 0
  /\ handlerRuns = 0
  /\ firstEvent = [e |-> "none", code |-> 0, r |-> ""]
  /\ observed = [seen |-> FALSE, aborted |-> FALSE, bridge |-> {}]
  /\ res = Constructor("OPEN")
  /\ closeCalls = <<>>
  /\ wsCloseCalls = <<>>
  /\ sends = <<>>
  /\ wire = <<>>
  /\ buffered = 0
  /\ listens = <<>>
  /\ inbox = <<>>

\* The life of a constructed resource: transport events, close, send, listen, with
\* at most MaxOps calls and messages in all.
NextRes ==
  \/ WsPeerClosing
  \/ WsCloseEvent
  \/ WsErrorEvent
  \/ Ops < MaxOps /\ UserClose
  \/ RunTeardown
  \/ Ops < MaxOps /\ Send
  \/ SendWake
  \/ SendAbortWake
  \/ AbortSend
  \/ Drain
  \/ Ops < MaxOps /\ Listen
  \/ AbortListen
  \/ Ops < MaxOps /\ Message

SpecRes == InitRes /\ [][NextRes]_vars

\* The resource under close and send alone.
NextSend ==
  \/ WsPeerClosing
  \/ WsCloseEvent
  \/ WsErrorEvent
  \/ UserClose
  \/ RunTeardown
  \/ Send
  \/ SendWake
  \/ SendAbortWake
  \/ AbortSend
  \/ Drain

SpecSend == InitRes /\ [][NextSend]_vars

\* The resource under close, listen and inbound messages alone.
NextListen ==
  \/ WsPeerClosing
  \/ WsCloseEvent
  \/ WsErrorEvent
  \/ UserClose
  \/ RunTeardown
  \/ Listen
  \/ AbortListen
  \/ Message

SpecListen == InitRes /\ [][NextListen]_vars

\* ------------------------------------------------------------------ claims
Settled(p) == p.st \in {"resolved", "rejected"}

\* The outcome the race owes to its first event.
Expected(fe) ==
  CASE fe.e = "abort" -> [st |-> "rejected", value |-> AbortReason(fe.r)]
    [] fe.e = "open" -> [st |-> "resolved", value |-> TheResource]
    [] fe.e = "close" -> [st |-> "rejected", value |-> FromCloseEvent(fe.code)]
    [] fe.e = "error" -> [st |-> "rejected", value |-> GenericWebSocketError]

\* C1: once the transport of open() exists, the promise is settled by the first of
\* abort, open, close and error, with the outcome owed to that event (the signal's
\* reason, a resource, the error made from the close event, a generic error); no
\* resolve()/reject() call follows the first, and no later event changes the outcome.
\* A settled promise with a transport has had such an event.
C1_OutcomeFixedByFirstEvent ==
  /\ settleCalls <= 1
  /\ firstEvent.e # "none" => openP = Expected(firstEvent)
  /\ (owner = "factory" /\ ws.st # "none" /\ Settled(openP)) => firstEvent.e # "none"

\* The transport opened first; it has closed since and the signal has aborted since.
C1_Witness ==
  /\ firstEvent.e = "open"
  /\ openP.st = "resolved"
  /\ ws.closeFired
  /\ signal.st = "aborted"

\* C2: once the race has settled, none of its four listeners is registered, and no
\* race handler runs a second time.
C2_ListenersRemoved ==
  /\ Settled(openP) => raceListeners = {}
  /\ handlerRuns <= 1

\* The race was lost to an error, the signal was live, and the close event that
\* follows the error has fired without a handler running.
C2_Witness ==
  /\ firstEvent.e = "error"
  /\ openP.st = "rejected"
  /\ signal.atCall = "live"
  /\ ws.closeFired
  /\ handlerRuns = 1

\* C3: open() with an already aborted signal rejects with the signal's reason; no
\* transport is created, no listener registered, no handler ever run.
C3_AbortedBeforeOpen ==
  signal.atCall = "aborted" =>
    /\ openP = [st |-> "rejected", value |-> AbortReason(signal.reason)]
    /\ ws.st = "none"
    /\ raceListeners = {}
    /\ handlerRuns = 0

C3_Witness ==
  /\ signal.atCall = "aborted"
  /\ signal.reason = "r2"
  /\ observed.seen

\* C4: when the caller sees open() resolved, the resource's close signal is not
\* aborted and its 'close' and 'error' listeners are on the transport; a close or
\* error event of the transport after the open event closes the resource.
C4_OpenResourceAtResolution ==
  /\ (observed.seen /\ openP.st = "resolved") =>
       /\ ~observed.aborted
       /\ observed.bridge = {"close", "error"}
  /\ (openP.st = "resolved" /\ (ws.closeFired \/ ws.errFired)) => res.closeAborted

\* The caller saw the resolution, and the transport's error event came after it.
C4_Witness ==
  /\ observed.seen
  /\ openP.st = "resolved"
  /\ ws.errFired
  /\ res.bridgeRuns = 1
  /\ res.closeAborted

\* C5: construction succeeds exactly when the transport is Open; when it throws, no
\* teardown is registered and no listener is attached.
C5_ConstructorNeedsOpen ==
  res.ctor # "none" =>
    /\ res.ctor = "ok" <=> res.from = "OPEN"
    /\ res.ctor = "threw" => (res.teardowns = 0 /\ res.bridge = {})

\* The constructor threw on a transport its owner had closed.
C5_Witness ==
  /\ res.ctor = "threw"
  /\ res.from = "CLOSING"

\* C6: the close signal, once aborted, stays aborted; it is aborted by the time the
\* close stack has been told to close, hence before any teardown runs.
C6_CloseSignalOnce ==
  [][/\ res.closeAborted => res'.closeAborted
     /\ res'.closing => res'.closeAborted
     /\ res'.teardownRuns > 0 => res'.closeAborted]_vars

\* The transport's close event closed the resource and the teardown has run.
C6_Witness ==
  /\ res.closeAborted
  /\ res.bridgeRuns = 1
  /\ res.teardownRuns = 1

\* C7: the teardown action never runs twice, has run once when close() has
\* settled, and all close() calls, from the user and from the two listeners, settle
\* alike.
C7_CloseIdempotent ==
  /\ res.teardownRuns <= 1
  /\ res.outcome # "none" => res.teardownRuns = 1
  /\ \A i, j \in 1..Len(closeCalls) :
       (closeCalls[i].outcome # "pending" /\ closeCalls[j].outcome # "pending")
         => closeCalls[i].outcome = closeCalls[j].outcome

\* The close listener's call followed by two user calls, all settled.
C7_Witness ==
  /\ Len(closeCalls) = 3
  /\ closeCalls[1].src = "wsClose"
  /\ closeCalls[2].src = "user"
  /\ closeCalls[3].src = "user"
  /\ \A i \in 1..3 : closeCalls[i].outcome = "resolved"

\* C8: a resolved close() means the teardown has run and the transport is Closing
\* or Closed.
C8_ResolvedAfterTeardown ==
  \A i \in 1..Len(closeCalls) :
    closeCalls[i].outcome = "resolved" =>
      /\ res.teardownRuns >= 1
      /\ ws.st \in {"CLOSING", "CLOSED"}

\* close() resolved after the teardown closed an open transport.
C8_Witness ==
  /\ Len(closeCalls) >= 1
  /\ closeCalls[1].src = "user"
  /\ closeCalls[1].outcome = "resolved"
  /\ Len(wsCloseCalls) = 1
  /\ ws.st = "CLOSING"

\* C9: after the close event of a wrapped transport the close signal is aborted;
\* when that event started the close, the reason is the error made from it; a
\* send() called after the event is rejected as closed with nothing handed over.
C9_TransportCloseClosesResource ==
  /\ (res.ctor = "ok" /\ ws.closeFired) => res.closeAborted
  /\ (closeCalls # <<>> /\ closeCalls[1].src = "wsClose") =>
       res.reason = FromCloseEvent(ws.code)
  /\ \A i \in 1..Len(sends) :
       sends[i].afterWsClose =>
         /\ sends[i].call.st = "rejected"
         /\ sends[i].call.error = ClosedError
         /\ Len(wire) < i

\* The close event closed the resource, and a send() came after it.
C9_Witness ==
  /\ closeCalls # <<>>
  /\ closeCalls[1].src = "wsClose"
  /\ ws.code = 1006
  /\ Len(sends) = 1
  /\ sends[1].afterWsClose

\* C10: the payloads handed to the transport are, in every state and so when each
\* send() returns, those of the send() calls made on an open resource, in call
\* order, each once.
AcceptedPayloads ==
  LET acc == SelectSeq(sends, LAMBDA s : ~s.closedAtCall) IN
  [i \in 1..Len(acc) |-> acc[i].call.payload]

C10_SendOrder == wire = AcceptedPayloads

\* Two sends with different payloads, both still waiting for the buffer.
C10_Witness ==
  /\ Len(sends) = 2
  /\ sends[1].call.st = "sleeping"
  /\ sends[2].call.st = "sleeping"
  /\ wire = <<"a", "">>

\* A send that was waiting, or is new, in this step.
WasPending(i) == i > Len(sends) \/ sends[i].call.st = "sleeping"

\* The catch clause of send i runs in this step.
Caught(i) ==
  /\ i <= Len(sends)
  /\ sends[i].call.st = "sleeping"
  /\ TaskAborted(sends[i].call)
  /\ sends'[i].call.st # "sleeping"

\* C11: a send() resolves only in a step that finds bufferedAmount at zero; a
\* waiting send whose signal has not fired can end its wait as soon as
\* bufferedAmount is zero.
C11_ResolvesWhenDrained ==
  /\ [](\A i \in 1..Len(sends) :
          (sends[i].call.st = "sleeping" /\ buffered = 0 /\ ~MicrotaskPending)
            => ENABLED SendWake)
  /\ [][\A i \in 1..Len(sends') :
          (WasPending(i) /\ sends'[i].call.st = "resolved") => buffered' = 0]_vars

\* A send resolved by the timer after the buffer had held its payload.
C11_Witness ==
  /\ Len(sends) >= 1
  /\ sends[1].call.payload = "a"
  /\ sends[1].call.st = "resolved"
  /\ ~sends[1].call.caught
  /\ ~res.closeAborted

\* C12 as claimed: whichever signal cancelled the wait, a send whose catch clause
\* finds bufferedAmount at zero resolves.
C12_DrainWinsAnyCancel ==
  [][\A i \in 1..Len(sends) :
       (Caught(i) /\ buffered = 0) => sends'[i].call.st = "resolved"]_vars

\* C12 amended: when the catch clause finds bufferedAmount at zero, the send
\* resolves if the caller's signal is not aborted (the wait was cancelled by the
\* resource closing) and rejects with the cancellation reason if it is.
C12_DrainWinsOnClose ==
  [][\A i \in 1..Len(sends) :
       (Caught(i) /\ buffered = 0) =>
         IF CallerAborted(sends[i].call)
           THEN /\ sends'[i].call.st = "rejected"
                /\ sends'[i].call.error = CancelReason(sends[i].call)
           ELSE /\ sends'[i].call.st = "resolved"
                /\ sends'[i].call.error = NoValue]_vars

\* The resource closed while a send waited on a drained buffer: the send resolved.
C12_Witness ==
  /\ Len(sends) >= 1
  /\ sends[1].call.st = "resolved"
  /\ sends[1].call.caught
  /\ sends[1].call.sig = "idle"
  /\ res.closeAborted

\* C13: a wait cancelled, by the caller's signal or by the resource closing, while
\* bytes are buffered ends in a rejection with the cancellation reason.
C13_CancelledWhileBuffered ==
  [][\A i \in 1..Len(sends) :
       (Caught(i) /\ buffered > 0) =>
         /\ sends'[i].call.st = "rejected"
         /\ sends'[i].call.error = CancelReason(sends[i].call)]_vars

\* A send rejected by the resource closing, its caller's signal untouched.
C13_Witness ==
  /\ Len(sends) >= 1
  /\ sends[1].call.st = "rejected"
  /\ sends[1].call.caught
  /\ sends[1].call.sig = "idle"
  /\ sends[1].call.error = Val("aborted", FALSE, 0, "close")
  /\ buffered > 0

\* C14: a send() on a closed resource is rejected as closed, and the transport has
\* been handed only the payloads of the other sends.
C14_SendOnClosed ==
  /\ \A i \in 1..Len(sends) :
       sends[i].closedAtCall =>
         /\ sends[i].call.st = "rejected"
         /\ sends[i].call.error = ClosedError
  /\ Len(wire) = Cardinality({i \in 1..Len(sends) : ~sends[i].closedAtCall})

\* A send on an open resource, then one on the closed resource.
C14_Witness ==
  /\ Len(sends) = 2
  /\ ~sends[1].closedAtCall
  /\ sends[2].closedAtCall
  /\ Len(wire) = 1

\* A promise of open(), close() or send() is not settled.
Unsettled ==
  \/ openP.st = "pending"
  \/ \E i \in 1..Len(closeCalls) : closeCalls[i].outcome = "pending"
  \/ \E i \in 1..Len(sends) : sends[i].call.st = "sleeping"

\* C18: when the event loop and the transport go on, every promise of open(), of
\* close() and of send() is settled in the end: time and again none is left
\* unsettled.
C18_EverySettles == []<>~Unsettled

\* open() resolved, a send() that had to wait resolved, and a close() resolved.
C18_Witness ==
  /\ openP.st = "resolved"
  /\ Len(sends) >= 1
  /\ sends[1].call.payload = "a"
  /\ sends[1].call.st = "resolved"
  /\ closeCalls # <<>>
  /\ closeCalls[1].src = "user"
  /\ closeCalls[1].outcome = "resolved"

\* C19: a teardown run calls transport.close exactly when the transport is
\* Connecting or Open, with the reason's code and text when the reason is a
\* WebSocketError and without arguments otherwise.
C19_TeardownClosesTransport ==
  [][res'.teardownRuns > res.teardownRuns =>
       wsCloseCalls' =
         IF ws.st \in {"CONNECTING", "OPEN"}
           THEN Append(wsCloseCalls, IF res.reason.k = "wse" THEN res.reason ELSE NoValue)
           ELSE wsCloseCalls]_vars

\* The teardown closed an open transport with the code of the caller's error.
C19_Witness ==
  /\ res.teardownRuns = 1
  /\ wsCloseCalls = <<FromCloseEvent(1000)>>
  /\ ws.st = "CLOSING"

\* C15: a listen() given an aborted signal returns without subscribing, on an open
\* and on a closed resource alike; given none, or one not aborted, on a closed
\* resource it throws the closed error; neither call's listener is ever invoked.
C15_ListenChecksSignalFirst ==
  \A i \in 1..Len(listens) :
    LET l == listens[i] IN
    /\ l.sigAtCall = "aborted" => l.sub.result = "noop"
    /\ (l.sigAtCall = "idle" /\ l.closedAtCall) => l.sub.result = "threw"
    /\ (l.sigAtCall = "aborted" \/ l.closedAtCall) =>
         (~Subscribed(l.sub) /\ l.sub.got = <<>>)

\* A listen() with an aborted signal on a closed resource, then a message.
C15_Witness ==
  /\ Len(listens) = 1
  /\ listens[1].closedAtCall /\ listens[1].sigAtCall = "aborted"
  /\ listens[1].sub.result = "noop"
  /\ Len(inbox) = 1

\* C16: a listener still subscribed has been invoked with exactly the messages
\* that arrived since it subscribed, in their order, each once and unchanged.
C16_DeliveredInOrder ==
  \A i \in 1..Len(listens) :
    Subscribed(listens[i].sub) =>
      listens[i].sub.got = SubSeq(inbox, listens[i].sub.from + 1, Len(inbox))

\* Two different messages delivered to one listener.
C16_Witness ==
  /\ Len(listens) >= 1
  /\ Subscribed(listens[1].sub)
  /\ listens[1].sub.got = <<"x", "y">>

\* C17: no step invokes a listener whose caller's signal, or the close signal, is
\* aborted.
C17_NoDeliveryAfterAbort ==
  [][\A i \in 1..Len(listens) :
       (res.closeAborted \/ listens[i].sub.sig = "aborted") =>
         listens'[i].sub.got = listens[i].sub.got]_vars

\* A listener received one message, the resource closed, and another message
\* arrived.
C17_Witness ==
  /\ Len(listens) >= 1
  /\ listens[1].sub.sig = "idle"
  /\ listens[1].sub.got = <<"x">>
  /\ inbox = <<"x", "y">>
  /\ res.closeAborted

\* A close trigger happens in this step: a close() call, or the transport's close
\* or error event.
CloseTrigger ==
  \/ UserCloseCount' > UserCloseCount
  \/ ws'.closeFired /\ ~ws.closeFired
  \/ ws'.errFired /\ ~ws.errFired

\* C20: the close signal aborts only in a step of close(), of the transport's close
\* event or of its error event, and each of them on an open resource aborts it; a
\* step of send, listen, a message, the buffer or a caller's signal changes neither
\* the resource nor the transport's state; transport.close is called only once the
\* close signal is aborted.
C20_OnlyCloseTriggers ==
  [][/\ (res'.closeAborted /\ ~res.closeAborted) => CloseTrigger
     /\ (CloseTrigger /\ res.ctor = "ok") => res'.closeAborted
     /\ (sends' # sends \/ listens' # listens \/ inbox' # inbox \/ buffered' # buffered) =>
          (res' = res /\ ws' = ws /\ wsCloseCalls' = wsCloseCalls)
     /\ wsCloseCalls' # wsCloseCalls => res.closeAborted]_vars

\* A send rejected by its caller's abort, a listen that received a message and
\* whose caller's signal was then aborted, and the resource is open.
C20_Witness ==
  /\ Len(sends) = 1 /\ sends[1].call.sig = "aborted" /\ sends[1].call.st = "rejected"
  /\ Len(listens) = 1 /\ listens[1].sub.sig = "aborted"
  /\ listens[1].sub.got = <<"x">>
  /\ ~res.closeAborted
  /\ ws.st = "OPEN"
  /\ wsCloseCalls = <<>>

\* C21: the resource has called transport.close at most once; it calls it only in
\* a step of the teardown, which is no step of send, listen, a message or a
\* transport event, and never on a transport that is already Closing or Closed.
C21_TransportClosedOnce ==
  [][/\ Len(wsCloseCalls') <= 1
     /\ wsCloseCalls' # wsCloseCalls =>
          /\ res'.teardownRuns = res.teardownRuns + 1
          /\ ws.st \in {"CONNECTING", "OPEN"}
          /\ sends' = sends /\ listens' = listens /\ inbox' = inbox
          /\ ws'.closeFired = ws.closeFired /\ ws'.errFired = ws.errFired]_vars

\* A send, two close() calls, one transport.close from the teardown, and then the
\* transport's close event.
C21_Witness ==
  /\ Len(sends) = 1
  /\ UserCloseCount = 2
  /\ Len(wsCloseCalls) = 1
  /\ res.teardownRuns = 1
  /\ ws.closeFired

\* A transport close or error event happens in this step.
TransportEnds ==
  \/ ws'.closeFired /\ ~ws.closeFired
  \/ ws'.errFired /\ ~ws.errFired

\* C22: at most one of the two bridging listeners ever runs; once the close has
\* started its reason stays; a transport close or error event on a resource whose
\* close signal is aborted makes no close call and leaves the resource as it is.
C22_ReasonFixedByFirstTrigger ==
  [][/\ res'.bridgeRuns <= 1
     /\ res.closing => res'.reason = res.reason
     /\ (res.closeAborted /\ TransportEnds) =>
          (res' = res /\ closeCalls' = closeCalls)]_vars

\* close(reason) by the user, the teardown's transport.close, then the transport's
\* error and close events: the reason is still the user's.
C22_Witness ==
  /\ closeCalls # <<>>
  /\ closeCalls[1].src = "user"
  /\ res.reason = OtherReason
  /\ wsCloseCalls = <<NoValue>>
  /\ ws.errFired
  /\ ws.closeFired
  /\ ws.code = 1006
  /\ res.bridgeRuns = 0

\* C23 as claimed: no transport made by open() is Connecting or Open while that
\* open() is rejected and no resource wraps the transport.
C23_NoOrphanTransport ==
  ~(/\ owner = "factory"
    /\ openP.st = "rejected"
    /\ res.ctor # "ok"
    /\ ws.st \in {"CONNECTING", "OPEN"})

\* The place on the wire of the payload of send i, which was made on an open
\* resource: the number of such sends up to it.
WirePlace(i) == Cardinality({j \in 1..i : ~sends[j].closedAtCall})

\* Send i is rejected in this step, its wait cancelled.
RejectedNow(i) == Caught(i) /\ sends'[i].call.st = "rejected"

\* C24: a send rejected by cancellation has its payload on the wire, at its place
\* and nowhere else; the step that rejects it leaves the wire and the buffer as
\* they are, and when the caller's signal was the one aborted it leaves the
\* resource, the transport, the subscriptions and every other send as they are.
C24_RejectionKeepsPayload ==
  [][\A i \in 1..Len(sends) :
       /\ (sends[i].call.st = "rejected" /\ sends[i].call.caught) =>
            /\ Len(wire) = WirePlace(Len(sends))
            /\ wire[WirePlace(i)] = sends[i].call.payload
       /\ RejectedNow(i) =>
            /\ wire' = wire
            /\ buffered' = buffered
       /\ (RejectedNow(i) /\ sends[i].call.sig = "aborted") =>
            /\ res' = res
            /\ ws' = ws
            /\ listens' = listens
            /\ \A j \in 1..Len(sends) : j # i => sends'[j] = sends[j]]_vars

\* The first of two waiting sends was rejected by its caller's signal: the other
\* still waits, a listener is still subscribed and the resource is open.
C24_Witness ==
  /\ Len(sends) = 2
  /\ sends[1].call.st = "rejected" /\ sends[1].call.sig = "aborted"
  /\ sends[2].call.st = "sleeping"
  /\ wire = <<"a", "a">>
  /\ Len(listens) = 1 /\ Subscribed(listens[1].sub)
  /\ ~res.closeAborted
====
